---- MODULE Spec2Model ----
(***************************************************************************)
(* A model of the game abstraction (games/base_game.py), the four game     *)
(* state machines (Halving, Tic-Tac-Toe, Nim, Connect Four) and the        *)
(* minimax agent (agents/minimax_agent.py).                                *)
(*                                                                         *)
(* Python values are represented as follows.                               *)
(*   - a game state (payload, player) is the tuple <<payload, player>>;    *)
(*   - a numpy board is a function [0..N-1 -> [0..N-1 -> {-1,0,1}]], so    *)
(*     row and column numbers are the source's 0-based ones;               *)
(*   - a Python list is a sequence; element i of the list is seq[i+1];     *)
(*   - None is <<>> and a non-None optional value v is <<v>>;              *)
(*   - a call that may raise returns a record whose field raised tells     *)
(*     whether it raised (ValueError or IndexError).                       *)
(***************************************************************************)
EXTENDS Integers, Sequences, FiniteSets, TLC

VARIABLES
    game,             \* which Game subclass the session is an instance of
    board_size,       \* ConnectFourGame.board_size (0 for the other games)
    starting_number,  \* HalvingGame.starting_number (0 for the other games)
    initial_piles,    \* NimGame.initial_piles (<<>> for the other games)
    state,            \* Game.state of the live session
    current_player,   \* Game.current_player of the live session
    raised,           \* whether the last Game.move call on a session raised
    moves,            \* number of successful Game.move calls on the live session
    opening,          \* number of first plies that follow the scripted opening
    copy_ref,         \* what Game.copy() returned: 0 nothing yet, 1 the live
                      \* session object itself, 2 a session object of its own
    copy_state,       \* Game.state of the session object made by copy()
    copy_current_player, \* Game.current_player of that object
    aliased           \* whether the two sessions hold the same array/list object

vars == <<game, board_size, starting_number, initial_piles, state,
          current_player, raised, moves, opening, copy_ref, copy_state,
          copy_current_player, aliased>>

(***************************************************************************)
(* Bounds of the exploration.                                              *)
(***************************************************************************)
\* Halving games are started from every number in 0..MaxStartingNumber.
MaxStartingNumber == 15
\* Nim games are started from every list of at most MaxPiles piles ...
MaxPiles == 2
\* ... of at most MaxPileSize objects each (and from the default piles).
MaxPileSize == 3
\* Connect Four: number of cells of the 4x4 / 5x5 board left to free play;
\* the plies before that follow the scripted opening.
FreeCells4 == 11
FreeCells5 == 11
\* How far outside the legal range the indices of attempted actions go.
IndexSlack == 1
\* The smaller configurations used where illegal calls, a second session or
\* a search are explored at every state: largest Halving number, largest Nim
\* pile (of two piles), and cells left to free play on the boards.
SmallMaxNumber == 6
SmallMaxPile == 2
SmallFreeCells == 6
\* Cells left to free play on the boards where a session and its copy are
\* explored together.
CopyFreeCells == 3
\* Cells left to free play on the boards where the search is explored.
SearchFreeCells == 6
\* The most objects a Nim state holds where its exact value is computed.
MaxValueObjects == 7
\* How far outside their domain the parameters of the constructors go: board
\* sizes from 4 - OutOfDomain to 5 + OutOfDomain, starting numbers and pile
\* sizes from -OutOfDomain on.
OutOfDomain == 1
\* How many moves the play of a game constructed with a negative number or
\* pile is followed for (a Halving game below 0 never ends).
MaxOutOfDomainMoves == 3

(***************************************************************************)
(* Python helpers.                                                         *)
(***************************************************************************)
None == <<>>
Some(v) == <<v>>

\* The result of a call that returned v, and of a call that raised.
Ok(v) == [raised |-> FALSE, value |-> v]
Raise == [raised |-> TRUE, value |-> <<>>]

\* x in list
InSeq(x, seq) == \E i \in 1..Len(seq) : seq[i] = x

\* numpy indexing of an axis of length n: a negative index counts from the
\* end, and an index outside -n..n-1 raises IndexError.
InBounds(i, n) == -n <= i /\ i < n
PyIndex(i, n) == IF i < 0 THEN i + n ELSE i

\* np.zeros((n, n), dtype=int)
Zeros(n) == [r \in 0..(n - 1) |-> [c \in 0..(n - 1) |-> 0]]

\* The cells (row, col) of an n x n array in row-major order (np.argwhere).
RowMajor(n) == [i \in 1..(n * n) |-> <<(i - 1) \div n, (i - 1) % n>>]

\* np.any(board == 0)
AnyZero(board, n) == \E r \in 0..(n - 1), c \in 0..(n - 1) : board[r][c] = 0

\* The sum of the k cells of board from (r, c) on in steps of (dr, dc).
RECURSIVE SumLine(_, _, _, _, _, _)
SumLine(board, r, c, dr, dc, k) ==
    IF k = 0 THEN 0
    ELSE board[r][c] + SumLine(board, r + dr, c + dc, dr, dc, k - 1)

\* The line sums of the k x k window of board whose top left cell is (ro, co):
\* board.sum(axis=1), board.sum(axis=0), np.trace(board),
\* np.trace(np.fliplr(board)).
LineSums(board, ro, co, k) ==
    [i \in 1..k |-> SumLine(board, ro + i - 1, co, 0, 1, k)]
    \o [j \in 1..k |-> SumLine(board, ro, co + j - 1, 1, 0, k)]
    \o <<SumLine(board, ro, co, 1, 1, k)>>
    \o <<SumLine(board, ro, co + k - 1, 1, -1, k)>>

(***************************************************************************)
(* HalvingGame                                                             *)
(***************************************************************************)
Halving_initial_state == <<starting_number, 1>>

Halving_is_terminal(s) == s[1] = 0

\* Mutant: "halve" is offered for even numbers only.
Halving_actions_even_halve(s) ==
    IF Halving_is_terminal(s) THEN <<>>
    ELSE IF s[1] % 2 = 0 THEN <<"subtract", "halve">>
    ELSE <<"subtract">>

Halving_actions(s) ==
    IF Halving_is_terminal(s) THEN <<>> ELSE <<"subtract", "halve">>

\* Mutant: "halve" rounds up instead of down.
Halving_next_rounds_up(s, action) ==
    LET number == s[1]
        player == s[2]
    IN  IF action = "subtract" THEN Ok(<<number - 1, -player>>)
        ELSE IF action = "halve" THEN Ok(<<(number + 1) \div 2, -player>>)
        ELSE Raise

\* Mutant: the player is not switched.
Halving_next_keeps_player(s, action) ==
    LET number == s[1]
        player == s[2]
    IN  IF action = "subtract" THEN Ok(<<number - 1, player>>)
        ELSE IF action = "halve" THEN Ok(<<number \div 2, player>>)
        ELSE Raise

Halving_next(s, action) ==
    LET number == s[1]
        player == s[2]
    IN  IF action = "subtract" THEN Ok(<<number - 1, -player>>)
        ELSE IF action = "halve" THEN Ok(<<number \div 2, -player>>)
        ELSE Raise

\* Mutant: the player to move in the terminal state wins.
Halving_utility_mover_loses(s, player) ==
    IF ~Halving_is_terminal(s) THEN 0
    ELSE LET previous_player == -s[2]
         IN  IF player = previous_player THEN -1 ELSE 1

Halving_utility(s, player) ==
    IF ~Halving_is_terminal(s) THEN 0
    ELSE LET previous_player == -s[2]
         IN  IF player = previous_player THEN 1 ELSE -1

Halving_player(s) == s[2]

(***************************************************************************)
(* TicTacToeGame                                                           *)
(***************************************************************************)
TicTacToe_initial_state == <<Zeros(3), 1>>

\* Mutant: the anti-diagonal is forgotten (the main diagonal is taken twice).
TicTacToe_check_winner_one_diagonal(board) ==
    LET lines == SubSeq(LineSums(board, 0, 0, 3), 1, 7)
    IN  IF InSeq(3, lines) THEN Some(1)
        ELSE IF InSeq(-3, lines) THEN Some(-1)
        ELSE None

TicTacToe_check_winner(board) ==
    LET lines == LineSums(board, 0, 0, 3)
    IN  IF InSeq(3, lines) THEN Some(1)
        ELSE IF InSeq(-3, lines) THEN Some(-1)
        ELSE None

TicTacToe_is_terminal(s) ==
    IF TicTacToe_check_winner(s[1]) # None THEN TRUE
    ELSE ~AnyZero(s[1], 3)

TicTacToe_actions(s) ==
    IF TicTacToe_is_terminal(s) THEN <<>>
    ELSE SelectSeq(RowMajor(3), LAMBDA rc : s[1][rc[1]][rc[2]] = 0)

TicTacToe_next(s, action) ==
    LET board == s[1]
        player == s[2]
        row == action[1]
        col == action[2]
    IN  IF ~InBounds(row, 3) \/ ~InBounds(col, 3) THEN Raise
        ELSE IF board[PyIndex(row, 3)][PyIndex(col, 3)] # 0 THEN Raise
        ELSE Ok(<<[board EXCEPT ![PyIndex(row, 3)][PyIndex(col, 3)] = player],
                  -player>>)

\* Mutant: a game nobody won counts as lost.
TicTacToe_utility_no_draw(s, player) ==
    IF ~TicTacToe_is_terminal(s) THEN 0
    ELSE LET winner == TicTacToe_check_winner(s[1])
         IN  IF winner = Some(player) THEN 1 ELSE -1

TicTacToe_utility(s, player) ==
    IF ~TicTacToe_is_terminal(s) THEN 0
    ELSE LET winner == TicTacToe_check_winner(s[1])
         IN  IF winner = Some(player) THEN 1
             ELSE IF winner = None THEN 0
             ELSE -1

TicTacToe_player(s) == s[2]

(***************************************************************************)
(* NimGame                                                                 *)
(***************************************************************************)
DefaultPiles == <<1, 3, 5, 7>>

Nim_initial_state == <<initial_piles, 1>>

\* The (pile_index, count) pairs of pile i of size n, count ascending, for
\* the piles from index i on.
RECURSIVE Nim_actions_from(_, _)

\* Mutant: the counts start at 0 (np.arange(0, pile_size + 1)).
Nim_actions_from_zero(piles, i) ==
    IF i >= Len(piles) THEN <<>>
    ELSE (IF piles[i + 1] > 0
          THEN [k \in 1..(piles[i + 1] + 1) |-> <<i, k - 1>>]
          ELSE <<>>)
         \o Nim_actions_from(piles, i + 1)

Nim_actions_from(piles, i) ==
    IF i >= Len(piles) THEN <<>>
    ELSE (IF piles[i + 1] > 0
          THEN [k \in 1..piles[i + 1] |-> <<i, k>>]
          ELSE <<>>)
         \o Nim_actions_from(piles, i + 1)

Nim_actions(s) == Nim_actions_from(s[1], 0)

\* Mutant: one object fewer than asked for is removed.
Nim_next_one_fewer(s, action) ==
    LET piles == s[1]
        player == s[2]
        pile_idx == action[1]
        objects_to_remove == action[2]
    IN  IF pile_idx < 0 \/ pile_idx >= Len(piles) THEN Raise
        ELSE IF objects_to_remove < 1 \/ objects_to_remove > piles[pile_idx + 1]
        THEN Raise
        ELSE Ok(<<[piles EXCEPT ![pile_idx + 1] = @ - (objects_to_remove - 1)],
                  -player>>)

Nim_next(s, action) ==
    LET piles == s[1]
        player == s[2]
        pile_idx == action[1]
        objects_to_remove == action[2]
    IN  IF pile_idx < 0 \/ pile_idx >= Len(piles) THEN Raise
        ELSE IF objects_to_remove < 1 \/ objects_to_remove > piles[pile_idx + 1]
        THEN Raise
        ELSE Ok(<<[piles EXCEPT ![pile_idx + 1] = @ - objects_to_remove],
                  -player>>)

Nim_is_terminal(s) == \A i \in 1..Len(s[1]) : s[1][i] = 0

\* Mutant: the player who took the last object loses.
Nim_utility_last_loses(s, player) ==
    IF ~Nim_is_terminal(s) THEN 0
    ELSE LET previous_player == -s[2]
         IN  IF player = previous_player THEN -1 ELSE 1

Nim_utility(s, player) ==
    IF ~Nim_is_terminal(s) THEN 0
    ELSE LET previous_player == -s[2]
         IN  IF player = previous_player THEN 1 ELSE -1

Nim_player(s) == s[2]

\* a ^ b of two non-negative integers.
RECURSIVE BitXor(_, _)
BitXor(a, b) ==
    IF a = 0 THEN b
    ELSE IF b = 0 THEN a
    ELSE ((a + b) % 2) + 2 * BitXor(a \div 2, b \div 2)

\* The xor of the piles from index i (0-based) on.
RECURSIVE XorReduce(_, _)
XorReduce(piles, i) ==
    IF i >= Len(piles) THEN 0
    ELSE BitXor(piles[i + 1], XorReduce(piles, i + 1))

\* Mutant: the first pile is left out of the xor.
Nim_get_nim_sum_tail(s) ==
    IF Len(s[1]) = 0 THEN Raise ELSE Ok(XorReduce(s[1], 1))

\* np.bitwise_xor.reduce(np.array(piles)). np.array([]) is an array of
\* floats, for which bitwise_xor is not defined: the call raises TypeError.
Nim_get_nim_sum(s) ==
    IF Len(s[1]) = 0 THEN Raise ELSE Ok(XorReduce(s[1], 0))

\* Mutant: the pile is reduced by the target instead of to the target.
Nim_get_optimal_move_removes_target(s) ==
    LET piles == s[1]
        r == Nim_get_nim_sum(s)
        nim_sum == r.value
        valid_moves == {i \in 1..Len(piles) : BitXor(piles[i], nim_sum) < piles[i]}
    IN  IF r.raised THEN Raise
        ELSE IF nim_sum = 0 THEN Ok(None)
        ELSE IF valid_moves # {}
        THEN LET pile_idx == CHOOSE i \in valid_moves :
                                 \A j \in valid_moves : i <= j
                 target == BitXor(piles[pile_idx], nim_sum)
             IN  Ok(Some(<<pile_idx - 1, target>>))
        ELSE Ok(None)

\* NimGame.get_optimal_move: raises, or returns None or Some((index, count)).
\* np.argmax of the boolean array is the first index that holds True.
Nim_get_optimal_move(s) ==
    LET piles == s[1]
        r == Nim_get_nim_sum(s)
        nim_sum == r.value
        valid_moves == {i \in 1..Len(piles) : BitXor(piles[i], nim_sum) < piles[i]}
    IN  IF r.raised THEN Raise
        ELSE IF nim_sum = 0 THEN Ok(None)
        ELSE IF valid_moves # {}
        THEN LET pile_idx == CHOOSE i \in valid_moves :
                                 \A j \in valid_moves : i <= j
                 target == BitXor(piles[pile_idx], nim_sum)
             IN  Ok(Some(<<pile_idx - 1, piles[pile_idx] - target>>))
        ELSE Ok(None)

(***************************************************************************)
(* ConnectFourGame                                                         *)
(***************************************************************************)
ConnectFour_initial_state == <<Zeros(board_size), 1>>

ConnectFour_check_4x4_winner(board, ro, co) ==
    LET lines == LineSums(board, ro, co, 4)
    IN  IF InSeq(4, lines) THEN Some(1)
        ELSE IF InSeq(-4, lines) THEN Some(-1)
        ELSE None

\* The first non-None result over the windows in the order of the two loops.
RECURSIVE ConnectFour_windows(_, _)

\* Mutant: the window at offsets (1, 1) is not looked at.
ConnectFour_windows_three(board, i) ==
    IF i >= 3 THEN None
    ELSE LET winner == ConnectFour_check_4x4_winner(board, i \div 2, i % 2)
         IN  IF winner # None THEN winner
             ELSE ConnectFour_windows(board, i + 1)

ConnectFour_windows(board, i) ==
    IF i >= 4 THEN None
    ELSE LET winner == ConnectFour_check_4x4_winner(board, i \div 2, i % 2)
         IN  IF winner # None THEN winner
             ELSE ConnectFour_windows(board, i + 1)

ConnectFour_check_winner(board) ==
    IF board_size = 4 THEN ConnectFour_check_4x4_winner(board, 0, 0)
    ELSE IF board_size = 5 THEN ConnectFour_windows(board, 0)
    ELSE None

ConnectFour_is_terminal(s) ==
    IF ConnectFour_check_winner(s[1]) # None THEN TRUE
    ELSE ~AnyZero(s[1], board_size)

\* Mutant: the terminal test is forgotten.
ConnectFour_actions_unchecked(s) ==
    SelectSeq([i \in 1..board_size |-> i - 1], LAMBDA c : s[1][0][c] = 0)

\* Mutant: the bottom cell of the column is tested instead of the top one.
ConnectFour_actions_bottom_row(s) ==
    IF ConnectFour_is_terminal(s) THEN <<>>
    ELSE SelectSeq([i \in 1..board_size |-> i - 1],
                   LAMBDA c : s[1][board_size - 1][c] = 0)

ConnectFour_actions(s) ==
    IF ConnectFour_is_terminal(s) THEN <<>>
    ELSE SelectSeq([i \in 1..board_size |-> i - 1], LAMBDA c : s[1][0][c] = 0)

\* Mutant: the smallest row index of an empty cell ([0] for [-1]).
LowestEmpty_first(board, col) ==
    CHOOSE r \in 0..(board_size - 1) :
        /\ board[r][col] = 0
        /\ \A q \in 0..(r - 1) : board[q][col] # 0

\* np.where(column == 0)[0][-1]: the largest row index of an empty cell.
\* next uses it only after the test that the top cell of the column is empty,
\* so the column has an empty cell.
LowestEmpty(board, col) ==
    CHOOSE r \in 0..(board_size - 1) :
        /\ board[r][col] = 0
        /\ \A q \in (r + 1)..(board_size - 1) : board[q][col] # 0

\* Mutant: the player is not switched.
ConnectFour_next_keeps_player(s, action) ==
    LET board == s[1]
        player == s[2]
    IN  IF action < 0 \/ action >= board_size THEN Raise
        ELSE IF board[0][action] # 0 THEN Raise
        ELSE Ok(<<[board EXCEPT ![LowestEmpty(board, action)][action] = player],
                  player>>)

ConnectFour_next(s, action) ==
    LET board == s[1]
        player == s[2]
    IN  IF action < 0 \/ action >= board_size THEN Raise
        ELSE IF board[0][action] # 0 THEN Raise
        ELSE Ok(<<[board EXCEPT ![LowestEmpty(board, action)][action] = player],
                  -player>>)

ConnectFour_utility(s, player) ==
    IF ~ConnectFour_is_terminal(s) THEN 0
    ELSE LET winner == ConnectFour_check_winner(s[1])
         IN  IF winner = Some(player) THEN 1
             ELSE IF winner = None THEN 0
             ELSE -1

ConnectFour_player(s) == s[2]

(***************************************************************************)
(* Game: the abstract methods dispatch on the class of the session.        *)
(***************************************************************************)
initial_state ==
    CASE game = "halving" -> Halving_initial_state
      [] game = "tictactoe" -> TicTacToe_initial_state
      [] game = "nim" -> Nim_initial_state
      [] game = "connectfour" -> ConnectFour_initial_state

initial_player == 1

actions(s) ==
    CASE game = "halving" -> Halving_actions(s)
      [] game = "tictactoe" -> TicTacToe_actions(s)
      [] game = "nim" -> Nim_actions(s)
      [] game = "connectfour" -> ConnectFour_actions(s)

next(s, action) ==
    CASE game = "halving" -> Halving_next(s, action)
      [] game = "tictactoe" -> TicTacToe_next(s, action)
      [] game = "nim" -> Nim_next(s, action)
      [] game = "connectfour" -> ConnectFour_next(s, action)

is_terminal(s) ==
    CASE game = "halving" -> Halving_is_terminal(s)
      [] game = "tictactoe" -> TicTacToe_is_terminal(s)
      [] game = "nim" -> Nim_is_terminal(s)
      [] game = "connectfour" -> ConnectFour_is_terminal(s)

utility(s, p) ==
    CASE game = "halving" -> Halving_utility(s, p)
      [] game = "tictactoe" -> TicTacToe_utility(s, p)
      [] game = "nim" -> Nim_utility(s, p)
      [] game = "connectfour" -> ConnectFour_utility(s, p)

player(s) ==
    CASE game = "halving" -> Halving_player(s)
      [] game = "tictactoe" -> TicTacToe_player(s)
      [] game = "nim" -> Nim_player(s)
      [] game = "connectfour" -> ConnectFour_player(s)

\* next with the objects it works on. A heap is a sequence of the contents of
\* the array and list objects that exist, and a reference is an index into it.
\* A state whose payload is an array or a list is held as <<reference,
\* player>>; a Halving state holds its number itself (an int is immutable).

\* Mutant: no copy is made (new_board = board): the same object is written.
Copied_same_object(heap, ref) == [heap |-> heap, ref |-> ref]

\* board.copy() / piles.copy(): a new object with the content of the old one.
Copied(heap, ref) == [heap |-> Append(heap, heap[ref]), ref |-> Len(heap) + 1]

\* The state (payload, player) that st stands for in heap.
Deref(heap, st) ==
    IF game = "halving" THEN st ELSE <<heap[st[1]], st[2]>>

\* next(st, action) in heap: whether it raised, the heap after the call and
\* the state returned. The tests that raise come before the copy; the cell or
\* the pile is then written in the object copy() returned.
next_call(heap, st, action) ==
    LET r == next(Deref(heap, st), action)
    IN  IF r.raised THEN [raised |-> TRUE, heap |-> heap, value |-> <<>>]
        ELSE IF game = "halving"
        THEN [raised |-> FALSE, heap |-> heap, value |-> r.value]
        ELSE LET new == Copied(heap, st[1])
             IN  [raised |-> FALSE,
                  heap |-> [new.heap EXCEPT ![new.ref] = r.value[1]],
                  value |-> <<new.ref, r.value[2]>>]

\* Game.move on a session whose fields are sess: the fields after the call,
\* and whether the call raised. An exception leaves the fields as they were:
\* both assignments come after the membership test and after next returned.
\* Mutant: the action is not looked up in actions(state).
Game_move_unchecked(sess, action) ==
    LET r == next(sess.state, action)
    IN  IF r.raised
        THEN [raised |-> TRUE, state |-> sess.state,
              current_player |-> sess.current_player]
        ELSE [raised |-> FALSE, state |-> r.value,
              current_player |-> player(r.value)]

\* Mutant: current_player is not updated.
Game_move_stale_player(sess, action) ==
    IF ~InSeq(action, actions(sess.state))
    THEN [raised |-> TRUE, state |-> sess.state,
          current_player |-> sess.current_player]
    ELSE LET r == next(sess.state, action)
         IN  IF r.raised
             THEN [raised |-> TRUE, state |-> sess.state,
                   current_player |-> sess.current_player]
             ELSE [raised |-> FALSE, state |-> r.value,
                   current_player |-> sess.current_player]

Game_move(sess, action) ==
    IF ~InSeq(action, actions(sess.state))
    THEN [raised |-> TRUE, state |-> sess.state,
          current_player |-> sess.current_player]
    ELSE LET r == next(sess.state, action)
         IN  IF r.raised
             THEN [raised |-> TRUE, state |-> sess.state,
                   current_player |-> sess.current_player]
             ELSE [raised |-> FALSE, state |-> r.value,
                   current_player |-> player(r.value)]

Game_is_game_over(sess) == is_terminal(sess.state)

\* Mutant: a utility of 0 counts as a win (>= for >).
Game_get_winner_nonnegative(sess) ==
    IF ~Game_is_game_over(sess) THEN None
    ELSE IF utility(sess.state, 1) >= 0 THEN Some(1)
    ELSE IF utility(sess.state, -1) >= 0 THEN Some(-1)
    ELSE Some(0)

Game_get_winner(sess) ==
    IF ~Game_is_game_over(sess) THEN None
    ELSE IF utility(sess.state, 1) > 0 THEN Some(1)
    ELSE IF utility(sess.state, -1) > 0 THEN Some(-1)
    ELSE Some(0)

\* The live session object.
Live == [state |-> state, current_player |-> current_player]

\* get_state_display(): the entries is_game_over, winner and valid_actions
\* of the dictionary returned. Halving and Nim take the winner from
\* get_winner(), the board games from _check_winner(board); Nim also
\* computes get_nim_sum(), which may raise.
Halving_get_state_display(sess) ==
    Ok([is_game_over |-> Game_is_game_over(sess),
        winner |-> IF Game_is_game_over(sess) THEN Game_get_winner(sess)
                   ELSE None,
        valid_actions |-> Halving_actions(sess.state)])

TicTacToe_get_state_display(sess) ==
    Ok([is_game_over |-> Game_is_game_over(sess),
        winner |-> IF Game_is_game_over(sess)
                   THEN TicTacToe_check_winner(sess.state[1])
                   ELSE None,
        valid_actions |-> TicTacToe_actions(sess.state)])

Nim_get_state_display(sess) ==
    IF Nim_get_nim_sum(sess.state).raised THEN Raise
    ELSE Ok([is_game_over |-> Game_is_game_over(sess),
             winner |-> IF Game_is_game_over(sess) THEN Game_get_winner(sess)
                        ELSE None,
             valid_actions |-> Nim_actions(sess.state)])

ConnectFour_get_state_display(sess) ==
    Ok([is_game_over |-> Game_is_game_over(sess),
        winner |-> IF Game_is_game_over(sess)
                   THEN ConnectFour_check_winner(sess.state[1])
                   ELSE None,
        valid_actions |-> ConnectFour_actions(sess.state)])

get_state_display(sess) ==
    CASE game = "halving" -> Halving_get_state_display(sess)
      [] game = "tictactoe" -> TicTacToe_get_state_display(sess)
      [] game = "nim" -> Nim_get_state_display(sess)
      [] game = "connectfour" -> ConnectFour_get_state_display(sess)

(***************************************************************************)
(* The driver: construction and Game.move calls.                           *)
(***************************************************************************)
\* The initial piles Nim games are constructed with.
NimStarts ==
    {DefaultPiles} \cup UNION {[1..n -> 0..MaxPileSize] : n \in 0..MaxPiles}

\* A drawn Tic-Tac-Toe game, none of whose prefixes is won; scripted openings
\* are its prefixes.
TicTacToeScript ==
    <<<<0, 0>>, <<0, 1>>, <<0, 2>>, <<1, 1>>, <<1, 0>>, <<1, 2>>, <<2, 1>>,
      <<2, 0>>, <<2, 2>>>>

\* Drawn Connect Four games on the 4x4 and the 5x5 board, none of whose
\* prefixes is won.
ConnectFourScript4 == <<0, 3, 1, 3, 0, 2, 1, 2, 3, 2, 0, 0, 1, 1, 2, 3>>
ConnectFourScript5 ==
    <<0, 2, 4, 4, 4, 4, 4, 3, 3, 3, 1, 2, 1, 3, 0, 2, 1, 1, 1, 0, 0, 0, 2, 3,
      2>>

\* The action of ply i (0-based) of the scripted opening.
ScriptMove(i) ==
    CASE game = "tictactoe" -> TicTacToeScript[i + 1]
      [] game = "connectfour" /\ board_size = 4 -> ConnectFourScript4[i + 1]
      [] game = "connectfour" /\ board_size = 5 -> ConnectFourScript5[i + 1]
      [] OTHER -> "subtract"

MaxPileOf(piles) ==
    IF piles = <<>> THEN 0
    ELSE CHOOSE m \in {piles[i] : i \in 1..Len(piles)} :
             \A i \in 1..Len(piles) : piles[i] <= m

\* The arguments Game.move and next are called with: the legal actions and
\* illegal ones (unknown names, occupied cells, indices off the board by up to
\* IndexSlack, negative indices, counts of zero or above the pile).
ActionInputs ==
    CASE game = "halving" -> {"subtract", "halve", "double"}
      [] game = "tictactoe" ->
            (-IndexSlack..(2 + IndexSlack)) \X (-IndexSlack..(2 + IndexSlack))
      [] game = "nim" ->
            (-IndexSlack..(Len(initial_piles) - 1 + IndexSlack))
                \X (0..(MaxPileOf(initial_piles) + IndexSlack))
      [] game = "connectfour" -> -IndexSlack..(board_size - 1 + IndexSlack)

\* The object made by HalvingGame(n), TicTacToeGame(), NimGame(piles) or
\* ConnectFourGame(size): Game.__init__ sets state and current_player.
Construct(g, size, number, piles, scripted) ==
    /\ game = g
    /\ board_size = size
    /\ starting_number = number
    /\ initial_piles = piles
    /\ state = initial_state
    /\ current_player = initial_player
    /\ raised = FALSE
    /\ moves = 0
    /\ opening = scripted
    /\ copy_ref = 0
    /\ copy_state = initial_state
    /\ copy_current_player = initial_player
    /\ aliased = FALSE

\* The number of scripted plies that leaves free of the cells to free play.
Scripted(cells, free) == IF free >= cells THEN 0 ELSE cells - free

\* The games constructed: Halving from 0..maxNumber, Tic-Tac-Toe, Nim from
\* nimStarts, Connect Four 4x4 and 5x5.
Start(maxNumber, nimStarts, free3, free4, free5) ==
    \/ \E n \in 0..maxNumber : Construct("halving", 0, n, <<>>, 0)
    \/ Construct("tictactoe", 0, 0, <<>>, Scripted(9, free3))
    \/ \E piles \in nimStarts : Construct("nim", 0, 0, piles, 0)
    \/ Construct("connectfour", 4, 0, <<>>, Scripted(16, free4))
    \/ Construct("connectfour", 5, 0, <<>>, Scripted(25, free5))

Init == Start(MaxStartingNumber, NimStarts, 9, FreeCells4, FreeCells5)

InitSmall ==
    Start(SmallMaxNumber, [1..2 -> 0..SmallMaxPile], SmallFreeCells,
          SmallFreeCells, SmallFreeCells)

\* game.move(action) on the live session.
Move(action) ==
    LET after == Game_move(Live, action)
    IN  /\ state' = after.state
        /\ current_player' = after.current_player
        /\ raised' = after.raised
        /\ moves' = IF after.raised THEN moves ELSE moves + 1
        /\ UNCHANGED <<game, board_size, starting_number, initial_piles,
                       opening, copy_state, copy_current_player>>

\* A move with an action of actions(state); the plies of the opening are the
\* scripted ones.
LegalMove ==
    LET legal == actions(state)
    IN  \E i \in 1..Len(legal) :
            /\ moves < opening => legal[i] = ScriptMove(moves)
            /\ Move(legal[i])
            /\ aliased' = FALSE
            /\ UNCHANGED copy_ref

\* A move attempted with an action that is not in actions(state).
IllegalMove ==
    LET legal == actions(state)
    IN  \E action \in ActionInputs :
            /\ ~InSeq(action, legal)
            /\ Move(action)
            /\ UNCHANGED <<copy_ref, aliased>>

\* game.copy(): deepcopy makes a session object of its own, whose state holds
\* arrays and lists of its own.
\* Mutant: copy() returns the session itself.
Game_copy_self(sess) ==
    [ref |-> 1, state |-> sess.state, current_player |-> sess.current_player,
     aliased |-> TRUE]

Game_copy(sess) ==
    [ref |-> 2, state |-> sess.state, current_player |-> sess.current_player,
     aliased |-> FALSE]

\* The session object the result of copy() refers to.
CopySession ==
    IF copy_ref = 1 THEN Live
    ELSE [state |-> copy_state, current_player |-> copy_current_player]

\* game_copy = game.copy(), once the opening is played.
Copy ==
    LET game_copy == Game_copy(Live)
    IN  /\ copy_ref = 0
        /\ moves >= opening
        /\ copy_ref' = game_copy.ref
        /\ copy_state' = game_copy.state
        /\ copy_current_player' = game_copy.current_player
        /\ aliased' = game_copy.aliased
        /\ UNCHANGED <<game, board_size, starting_number, initial_piles,
                       state, current_player, raised, moves, opening>>

\* game_copy.move(action), with any action, legal or not.
MoveCopy ==
    \E action \in ActionInputs :
        LET after == Game_move(CopySession, action)
        IN  /\ copy_ref # 0
            /\ raised' = after.raised
            /\ IF copy_ref = 1
               THEN /\ state' = after.state
                    /\ current_player' = after.current_player
                    /\ UNCHANGED <<copy_state, copy_current_player>>
               ELSE /\ copy_state' = after.state
                    /\ copy_current_player' = after.current_player
                    /\ UNCHANGED <<state, current_player>>
            /\ aliased' = (aliased /\ after.raised)
            /\ UNCHANGED <<game, board_size, starting_number, initial_piles,
                           moves, opening, copy_ref>>

(***************************************************************************)
(* MinimaxAgent                                                            *)
(***************************************************************************)
\* math.inf: above every utility.
Infinity == 1000

Max(a, b) == IF a >= b THEN a ELSE b
Min(a, b) == IF a <= b THEN a ELSE b

\* max(S) and min(S) of a non-empty set of numbers.
SetMax(S) == CHOOSE m \in S : \A x \in S : x <= m
SetMin(S) == CHOOSE m \in S : \A x \in S : m <= x

\* MinimaxAgent(player_id, max_depth=max_depth); max_depth is None or Some(d).
MinimaxAgent(player_id, max_depth) ==
    [player_id |-> player_id, max_depth |-> max_depth]

\* game_copy = game.copy(); game_copy.move(action): the fields of game_copy.
CopyAndMove(sess, action) ==
    LET game_copy == Game_copy(sess)
    IN  Game_move([state |-> game_copy.state,
                   current_player |-> game_copy.current_player], action)

\* Mutant: the search stops one ply below the root's successors whatever
\* max_depth is.
DepthReached_shallow(self, depth) == depth >= 1

\* Mutant: a max_depth of 0 is a limit too (max_depth is not None and ...).
DepthReached_zero_limits(self, depth) ==
    /\ self.max_depth # None
    /\ depth >= self.max_depth[1]

\* self.max_depth and depth >= self.max_depth (None and 0 are falsy).
DepthReached(self, depth) ==
    /\ self.max_depth # None
    /\ self.max_depth[1] # 0
    /\ depth >= self.max_depth[1]

RECURSIVE MinimaxAgent_minimax(_, _, _, _, _, _)
RECURSIVE MaxLoop(_, _, _, _, _, _, _, _)
RECURSIVE MinLoop(_, _, _, _, _, _, _, _)

\* Mutant: the operands of the pruning test are swapped (alpha <= beta).
MaxLoop_swapped(self, sess, legal, i, depth, max_eval, alpha, beta) ==
    IF i > Len(legal) THEN max_eval
    ELSE LET eval_score ==
                 MinimaxAgent_minimax(self, CopyAndMove(sess, legal[i]),
                                      depth + 1, FALSE, alpha, beta)
         IN  IF Max(alpha, eval_score) <= beta
             THEN Max(max_eval, eval_score)
             ELSE MaxLoop(self, sess, legal, i + 1, depth,
                          Max(max_eval, eval_score), Max(alpha, eval_score),
                          beta)

\* The loop of the maximizing branch from the i-th action of legal on.
MaxLoop(self, sess, legal, i, depth, max_eval, alpha, beta) ==
    IF i > Len(legal) THEN max_eval
    ELSE LET eval_score ==
                 MinimaxAgent_minimax(self, CopyAndMove(sess, legal[i]),
                                      depth + 1, FALSE, alpha, beta)
         IN  IF beta <= Max(alpha, eval_score)
             THEN Max(max_eval, eval_score)
             ELSE MaxLoop(self, sess, legal, i + 1, depth,
                          Max(max_eval, eval_score), Max(alpha, eval_score),
                          beta)

\* The loop of the minimizing branch from the i-th action of legal on.
MinLoop(self, sess, legal, i, depth, min_eval, alpha, beta) ==
    IF i > Len(legal) THEN min_eval
    ELSE LET eval_score ==
                 MinimaxAgent_minimax(self, CopyAndMove(sess, legal[i]),
                                      depth + 1, TRUE, alpha, beta)
         IN  IF Min(beta, eval_score) <= alpha
             THEN Min(min_eval, eval_score)
             ELSE MinLoop(self, sess, legal, i + 1, depth,
                          Min(min_eval, eval_score), alpha,
                          Min(beta, eval_score))

\* MinimaxAgent._minimax
MinimaxAgent_minimax(self, sess, depth, maximizing_player, alpha, beta) ==
    IF Game_is_game_over(sess) \/ DepthReached(self, depth)
    THEN utility(sess.state, self.player_id)
    ELSE IF maximizing_player
    THEN MaxLoop(self, sess, actions(sess.state), 1, depth, -Infinity, alpha,
                 beta)
    ELSE MinLoop(self, sess, actions(sess.state), 1, depth, Infinity, alpha,
                 beta)

\* Mutant: an equal value replaces the incumbent (>= for >).
RECURSIVE BestLoop_last(_, _, _, _, _, _)
RECURSIVE BestLoop_worst(_, _, _, _, _, _)
BestLoop_last(self, sess, legal, i, best_action, best_value) ==
    IF i > Len(legal) THEN best_action
    ELSE LET value ==
                 MinimaxAgent_minimax(self, CopyAndMove(sess, legal[i]), 0,
                                      FALSE, -Infinity, Infinity)
         IN  IF value >= best_value
             THEN BestLoop_last(self, sess, legal, i + 1, Some(legal[i]), value)
             ELSE BestLoop_last(self, sess, legal, i + 1, best_action,
                                best_value)

\* Mutant: the action of the smallest value is kept (< for >, from +inf).
BestLoop_worst(self, sess, legal, i, best_action, best_value) ==
    IF i > Len(legal) THEN best_action
    ELSE LET value ==
                 MinimaxAgent_minimax(self, CopyAndMove(sess, legal[i]), 0,
                                      FALSE, -Infinity, Infinity)
             incumbent == IF best_action = None THEN Infinity ELSE best_value
         IN  IF value < incumbent
             THEN BestLoop_worst(self, sess, legal, i + 1, Some(legal[i]),
                                 value)
             ELSE BestLoop_worst(self, sess, legal, i + 1, best_action,
                                 incumbent)

\* The loop of choose_action from the i-th action of legal on.
RECURSIVE BestLoop(_, _, _, _, _, _)
BestLoop(self, sess, legal, i, best_action, best_value) ==
    IF i > Len(legal) THEN best_action
    ELSE LET value ==
                 MinimaxAgent_minimax(self, CopyAndMove(sess, legal[i]), 0,
                                      FALSE, -Infinity, Infinity)
         IN  IF value > best_value
             THEN BestLoop(self, sess, legal, i + 1, Some(legal[i]), value)
             ELSE BestLoop(self, sess, legal, i + 1, best_action, best_value)

\* Mutant: the incumbent value starts at 0 instead of -inf.
MinimaxAgent_choose_action_from_zero(self, sess) ==
    LET legal == actions(sess.state)
    IN  IF Len(legal) = 0 THEN None
        ELSE IF Len(legal) = 1 THEN Some(legal[1])
        ELSE BestLoop(self, sess, legal, 1, None, 0)

\* MinimaxAgent.choose_action: None or Some(action).
MinimaxAgent_choose_action(self, sess) ==
    LET legal == actions(sess.state)
    IN  IF Len(legal) = 0 THEN None
        ELSE IF Len(legal) = 1 THEN Some(legal[1])
        ELSE BestLoop(self, sess, legal, 1, None, -Infinity)

\* The number of _minimax calls choose_action makes itself: none on the two
\* early returns, one for each action in the loop.
MinimaxAgent_root_searches(self, sess) ==
    LET legal == actions(sess.state)
    IN  IF Len(legal) = 0 THEN 0
        ELSE IF Len(legal) = 1 THEN 0
        ELSE Len(legal)

\* Whether choose_action raises: the one call of its own that can raise is
\* game_copy.move(action) in the loop.
MinimaxAgent_choose_action_raises(self, sess) ==
    LET legal == actions(sess.state)
    IN  /\ Len(legal) > 1
        /\ \E i \in 1..Len(legal) : CopyAndMove(sess, legal[i]).raised

\* _minimax together with the states it is called on: the value it returns
\* and the largest number of plies below the state choose_action was called
\* on of a state that a call of _minimax received (the call at depth k
\* receives a state k + 1 plies below it).
RECURSIVE MinimaxAgent_minimax_visit(_, _, _, _, _, _)
RECURSIVE VisitLoop(_, _, _, _, _, _, _, _, _, _)

\* The loop of either branch from the i-th action of legal on.
VisitLoop(self, sess, legal, i, depth, maximizing_player, eval, alpha, beta, deepest) ==
    IF i > Len(legal) THEN [value |-> eval, deepest |-> deepest]
    ELSE LET r == MinimaxAgent_minimax_visit(self,
                      CopyAndMove(sess, legal[i]), depth + 1,
                      ~maximizing_player, alpha, beta)
             e == IF maximizing_player THEN Max(eval, r.value)
                  ELSE Min(eval, r.value)
             a == IF maximizing_player THEN Max(alpha, r.value) ELSE alpha
             b == IF maximizing_player THEN beta ELSE Min(beta, r.value)
             d == Max(deepest, r.deepest)
         IN  IF b <= a THEN [value |-> e, deepest |-> d]
             ELSE VisitLoop(self, sess, legal, i + 1, depth,
                            maximizing_player, e, a, b, d)

MinimaxAgent_minimax_visit(self, sess, depth, maximizing_player, alpha, beta) ==
    IF Game_is_game_over(sess) \/ DepthReached(self, depth)
    THEN [value |-> utility(sess.state, self.player_id),
          deepest |-> depth + 1]
    ELSE VisitLoop(self, sess, actions(sess.state), 1, depth,
                   maximizing_player,
                   IF maximizing_player THEN -Infinity ELSE Infinity,
                   alpha, beta, depth + 1)

\* The largest number of plies below game.state of a state that choose_action
\* hands to _minimax (0 when it returns without a search).
MinimaxAgent_choose_action_deepest(self, sess) ==
    LET legal == actions(sess.state)
    IN  IF Len(legal) <= 1 THEN 0
        ELSE SetMax({MinimaxAgent_minimax_visit(self,
                         CopyAndMove(sess, legal[i]), 0, FALSE, -Infinity,
                         Infinity).deepest : i \in 1..Len(legal)})

\* The search with the session object it is called on: besides its result,
\* the fields of the object game when the call returns, and whether the call
\* raised (a game_copy.move(action) that raises ends the call). game_copy is
\* the object copy() returned: when that is game itself (ref 1), the move and
\* the search below it act on game; otherwise they leave game alone.
RECURSIVE MinimaxAgent_minimax_on(_, _, _, _, _, _)
RECURSIVE SearchLoop(_, _, _, _, _, _, _, _, _)

\* The loop of either branch of _minimax from the i-th action of legal on.
SearchLoop(self, sess, legal, i, depth, maximizing_player, eval, alpha, beta) ==
    IF i > Len(legal) THEN [value |-> eval, sess |-> sess, raised |-> FALSE]
    ELSE LET game_copy == Game_copy(sess)
             moved == Game_move([state |-> game_copy.state,
                                 current_player |-> game_copy.current_player],
                                legal[i])
             r == MinimaxAgent_minimax_on(self,
                      [state |-> moved.state,
                       current_player |-> moved.current_player],
                      depth + 1, ~maximizing_player, alpha, beta)
             after == IF game_copy.ref = 1 THEN r.sess ELSE sess
             e == IF maximizing_player THEN Max(eval, r.value)
                  ELSE Min(eval, r.value)
             a == IF maximizing_player THEN Max(alpha, r.value) ELSE alpha
             b == IF maximizing_player THEN beta ELSE Min(beta, r.value)
         IN  IF moved.raised
             THEN [value |-> eval, sess |-> sess, raised |-> TRUE]
             ELSE IF r.raised
             THEN [value |-> eval, sess |-> after, raised |-> TRUE]
             ELSE IF b <= a
             THEN [value |-> e, sess |-> after, raised |-> FALSE]
             ELSE SearchLoop(self, after, legal, i + 1, depth,
                             maximizing_player, e, a, b)

MinimaxAgent_minimax_on(self, sess, depth, maximizing_player, alpha, beta) ==
    IF Game_is_game_over(sess) \/ DepthReached(self, depth)
    THEN [value |-> utility(sess.state, self.player_id), sess |-> sess,
          raised |-> FALSE]
    ELSE SearchLoop(self, sess, actions(sess.state), 1, depth,
                    maximizing_player,
                    IF maximizing_player THEN -Infinity ELSE Infinity,
                    alpha, beta)

\* The loop of choose_action from the i-th action of legal on.
RECURSIVE ChooseLoop(_, _, _, _, _, _)
ChooseLoop(self, sess, legal, i, best_action, best_value) ==
    IF i > Len(legal)
    THEN [action |-> best_action, sess |-> sess, raised |-> FALSE]
    ELSE LET game_copy == Game_copy(sess)
             moved == Game_move([state |-> game_copy.state,
                                 current_player |-> game_copy.current_player],
                                legal[i])
             r == MinimaxAgent_minimax_on(self,
                      [state |-> moved.state,
                       current_player |-> moved.current_player],
                      0, FALSE, -Infinity, Infinity)
             after == IF game_copy.ref = 1 THEN r.sess ELSE sess
         IN  IF moved.raised
             THEN [action |-> None, sess |-> sess, raised |-> TRUE]
             ELSE IF r.raised
             THEN [action |-> None, sess |-> after, raised |-> TRUE]
             ELSE IF r.value > best_value
             THEN ChooseLoop(self, after, legal, i + 1, Some(legal[i]),
                             r.value)
             ELSE ChooseLoop(self, after, legal, i + 1, best_action,
                             best_value)

\* choose_action(game) with the fields of game when it returns.
MinimaxAgent_choose_action_on(self, sess) ==
    LET legal == actions(sess.state)
    IN  IF Len(legal) = 0
        THEN [action |-> None, sess |-> sess, raised |-> FALSE]
        ELSE IF Len(legal) = 1
        THEN [action |-> Some(legal[1]), sess |-> sess, raised |-> FALSE]
        ELSE ChooseLoop(self, sess, legal, 1, None, -Infinity)

\* _minimax together with the flag of the nodes it visits: the value it
\* returns, whether at every call of _minimax below and including this one
\* maximizing_player was true exactly when the player to move in the state of
\* the call was self.player_id, and the number of calls whose flag was true.
RECURSIVE MinimaxAgent_minimax_turns(_, _, _, _, _, _)
RECURSIVE TurnsLoop(_, _, _, _, _, _, _, _, _, _, _)

\* The loop of either branch from the i-th action of legal on.
TurnsLoop(self, sess, legal, i, depth, maximizing_player, eval, alpha, beta, aligned, maximizing) ==
    IF i > Len(legal)
    THEN [value |-> eval, aligned |-> aligned, maximizing |-> maximizing]
    ELSE LET r == MinimaxAgent_minimax_turns(self,
                      CopyAndMove(sess, legal[i]), depth + 1,
                      ~maximizing_player, alpha, beta)
             e == IF maximizing_player THEN Max(eval, r.value)
                  ELSE Min(eval, r.value)
             a == IF maximizing_player THEN Max(alpha, r.value) ELSE alpha
             b == IF maximizing_player THEN beta ELSE Min(beta, r.value)
             al == aligned /\ r.aligned
             m == maximizing + r.maximizing
         IN  IF b <= a THEN [value |-> e, aligned |-> al, maximizing |-> m]
             ELSE TurnsLoop(self, sess, legal, i + 1, depth,
                            maximizing_player, e, a, b, al, m)

MinimaxAgent_minimax_turns(self, sess, depth, maximizing_player, alpha, beta) ==
    LET here == maximizing_player <=> (player(sess.state) = self.player_id)
        count == IF maximizing_player THEN 1 ELSE 0
    IN  IF Game_is_game_over(sess) \/ DepthReached(self, depth)
        THEN [value |-> utility(sess.state, self.player_id),
              aligned |-> here, maximizing |-> count]
        ELSE TurnsLoop(self, sess, actions(sess.state), 1, depth,
                       maximizing_player,
                       IF maximizing_player THEN -Infinity ELSE Infinity,
                       alpha, beta, here, count)

\* The calls of _minimax that choose_action makes, one for each action, when
\* it searches (none on its two early returns).
MinimaxAgent_choose_action_turns(self, sess) ==
    LET legal == actions(sess.state)
    IN  IF Len(legal) <= 1 THEN {}
        ELSE {MinimaxAgent_minimax_turns(self, CopyAndMove(sess, legal[i]),
                                         0, FALSE, -Infinity, Infinity) :
                  i \in 1..Len(legal)}

\* Python truth value of the result of choose_action: None and the column 0
\* are falsy; a non-zero column, an action name and a pair are truthy.
Truthy(ai_action) ==
    IF ai_action = None THEN FALSE
    ELSE IF game = "connectfour" THEN ai_action[1] # 0
    ELSE TRUE

\* One turn of the loop of _auto_play_ai_moves when the agent of the current
\* player is a MinimaxAgent: the agent's action is played if it is truthy,
\* and the loop is left otherwise.
AgentMove ==
    LET ai_action ==
            MinimaxAgent_choose_action(MinimaxAgent(current_player, None),
                                       Live)
    IN  /\ ~Game_is_game_over(Live)
        /\ moves >= opening
        /\ IF Truthy(ai_action)
           THEN /\ Move(ai_action[1])
                /\ aliased' = FALSE
           ELSE UNCHANGED <<game, board_size, starting_number, initial_piles,
                            state, current_player, raised, moves, opening,
                            copy_state, copy_current_player, aliased>>
        /\ UNCHANGED copy_ref

\* session["agents"]: for each player "minimax" (a MinimaxAgent made by
\* _create_agent, max_depth None) or "human" (None).
AgentTypes == [{1, -1} -> {"human", "minimax"}]

\* _auto_play_ai_moves on a session whose game has the fields sess and whose
\* agents are agents: the fields of the game when it returns, and the number
\* of moves it played.
RECURSIVE auto_play_ai_moves(_, _, _)
auto_play_ai_moves(sess, agents, played) ==
    IF Game_is_game_over(sess)
    THEN [state |-> sess.state, current_player |-> sess.current_player,
          played |-> played]
    ELSE IF agents[sess.current_player] = "minimax"
    THEN LET current_agent == MinimaxAgent(sess.current_player, None)
             ai_action == MinimaxAgent_choose_action(current_agent, sess)
             after == Game_move(sess, ai_action[1])
         IN  IF Truthy(ai_action)
             THEN auto_play_ai_moves([state |-> after.state,
                                      current_player |-> after.current_player],
                                     agents, played + 1)
             ELSE [state |-> sess.state,
                   current_player |-> sess.current_player, played |-> played]
    ELSE [state |-> sess.state, current_player |-> sess.current_player,
          played |-> played]

\* _auto_play_ai_moves(session_id) on the live session, with any agents.
AutoPlayAiMoves ==
    \E agents \in AgentTypes :
        LET after == auto_play_ai_moves(Live, agents, 0)
        IN  /\ moves >= opening
            /\ after.played > 0
            /\ state' = after.state
            /\ current_player' = after.current_player
            /\ raised' = FALSE
            /\ moves' = moves + after.played
            /\ aliased' = FALSE
            /\ UNCHANGED <<game, board_size, starting_number, initial_piles,
                           opening, copy_ref, copy_state, copy_current_player>>

Next == LegalMove

\* Legal play of the four games.
Spec == Init /\ [][Next]_vars

\* Legal and illegal Game.move calls.
NextMove == LegalMove \/ IllegalMove
SpecMove == InitSmall /\ [][NextMove]_vars

\* Play on a session and on its copy.
InitCopy ==
    Start(SmallMaxNumber, [1..2 -> 0..SmallMaxPile], CopyFreeCells,
          CopyFreeCells, CopyFreeCells)
NextCopy == LegalMove \/ Copy \/ MoveCopy
SpecCopy == InitCopy /\ [][NextCopy]_vars

\* Play in which any move may be the one a minimax agent chooses.
InitSearch ==
    Start(MaxStartingNumber, [1..2 -> 0..SmallMaxPile], SearchFreeCells,
          SearchFreeCells, SearchFreeCells)
NextSearch == LegalMove \/ AgentMove
SpecSearch == InitSearch /\ [][NextSearch]_vars

\* Sessions in which humans move and the agents are played automatically.
NextAuto == LegalMove \/ AutoPlayAiMoves
SpecAuto == InitSearch /\ [][NextAuto]_vars

\* The constructors: what __init__ does with its parameter before
\* Game.__init__ runs. ConnectFourGame raises ValueError for a board size
\* other than 4 and 5; HalvingGame and NimGame store what they are given.
Halving_init(number) == Ok(number)
Nim_init(piles) == Ok(piles)
ConnectFour_init(size) == IF size \notin {4, 5} THEN Raise ELSE Ok(size)

\* No object was made: the constructor called for class g raised. The
\* parameter variables hold the arguments of the call.
NoObject(g, size, number, piles) ==
    /\ game = "none"
    /\ board_size = size
    /\ starting_number = number
    /\ initial_piles = piles
    /\ state = <<g>>
    /\ current_player = 0
    /\ raised = TRUE
    /\ moves = 0
    /\ opening = 0
    /\ copy_ref = 0
    /\ copy_state = <<>>
    /\ copy_current_player = 0
    /\ aliased = FALSE

\* The constructors called with parameters in and out of their domains.
InitConstruct ==
    \/ \E n \in (-OutOfDomain)..SmallMaxNumber :
           IF Halving_init(n).raised THEN NoObject("halving", 0, n, <<>>)
           ELSE Construct("halving", 0, Halving_init(n).value, <<>>, 0)
    \/ Construct("tictactoe", 0, 0, <<>>, Scripted(9, SmallFreeCells))
    \/ \E piles \in [1..2 -> (-OutOfDomain)..SmallMaxPile] :
           IF Nim_init(piles).raised THEN NoObject("nim", 0, 0, piles)
           ELSE Construct("nim", 0, 0, Nim_init(piles).value, 0)
    \/ \E size \in (4 - OutOfDomain)..(5 + OutOfDomain) :
           IF ConnectFour_init(size).raised
           THEN NoObject("connectfour", size, 0, <<>>)
           ELSE Construct("connectfour", ConnectFour_init(size).value, 0,
                          <<>>, Scripted(size * size, SmallFreeCells))

\* The game was constructed with a negative number or a negative pile.
NegativeParameter ==
    \/ starting_number < 0
    \/ \E i \in 1..Len(initial_piles) : initial_piles[i] < 0

\* A legal move on the object a constructor made.
MoveConstructed ==
    /\ game # "none"
    /\ NegativeParameter => moves < MaxOutOfDomainMoves
    /\ LegalMove

NextConstruct == MoveConstructed
SpecConstruct == InitConstruct /\ [][NextConstruct]_vars

\* Matches: Halving with a minimax agent as player +1 against any legal
\* play of -1; Tic-Tac-Toe with a minimax agent on both sides; Nim from the
\* default piles with the nim-sum oracle as player -1 against any legal play
\* of +1.
InitMatch ==
    \/ \E n \in 0..MaxStartingNumber : Construct("halving", 0, n, <<>>, 0)
    \/ Construct("tictactoe", 0, 0, <<>>, 0)
    \/ Construct("nim", 0, 0, DefaultPiles, 0)

\* The player to move is played by a MinimaxAgent.
AgentTurn ==
    /\ \/ game = "halving" /\ current_player = 1
       \/ game = "tictactoe"
    /\ AgentMove

\* The player to move plays game.move(game.get_optimal_move()), which is
\* possible when get_optimal_move returned a move.
OracleTurn ==
    LET r == Nim_get_optimal_move(state)
    IN  /\ game = "nim"
        /\ current_player = -1
        /\ ~Game_is_game_over(Live)
        /\ ~r.raised
        /\ r.value # None
        /\ Move(r.value[1])
        /\ aliased' = FALSE
        /\ UNCHANGED copy_ref

\* The player to move plays any legal action.
FreeTurn ==
    /\ \/ game = "halving" /\ current_player = -1
       \/ game = "nim" /\ current_player = 1
    /\ LegalMove

NextMatch == AgentTurn \/ OracleTurn \/ FreeTurn

SpecMatch == InitMatch /\ [][NextMatch]_vars

(***************************************************************************)
(* Definitions the properties are stated with.                             *)
(***************************************************************************)
\* The session is over.
Over == Game_is_game_over(Live)

\* The "total objects" of the game as constructed: the starting number, the
\* 9 cells, the sum of the piles, the N*N cells.
RECURSIVE SumOf(_)
SumOf(seq) == IF seq = <<>> THEN 0 ELSE Head(seq) + SumOf(Tail(seq))

TotalObjects ==
    CASE game = "halving" -> starting_number
      [] game = "tictactoe" -> 9
      [] game = "nim" -> SumOf(initial_piles)
      [] game = "connectfour" -> board_size * board_size

\* The side of the boards of the session (0 when the game has no board).
BoardSide ==
    CASE game = "tictactoe" -> 3
      [] game = "connectfour" -> board_size
      [] OTHER -> 0

\* The length of a winning line.
LineLength == IF game = "tictactoe" THEN 3 ELSE 4

\* Player p occupies k consecutive cells of the n x n board in a row, a
\* column, a diagonal or an anti-diagonal.
OwnsLine(board, n, k, p) ==
    \E r \in 0..(n - 1), c \in 0..(n - 1),
       d \in {<<0, 1>>, <<1, 0>>, <<1, 1>>, <<1, -1>>} :
        \A i \in 0..(k - 1) :
            /\ r + i * d[1] \in 0..(n - 1)
            /\ c + i * d[2] \in 0..(n - 1)
            /\ board[r + i * d[1]][c + i * d[2]] = p

\* A board game ended in a draw: the board is full and nobody owns a line.
Draw(s) ==
    /\ game \in {"tictactoe", "connectfour"}
    /\ ~AnyZero(s[1], BoardSide)
    /\ ~OwnsLine(s[1], BoardSide, LineLength, 1)
    /\ ~OwnsLine(s[1], BoardSide, LineLength, -1)

\* The exact game-theoretic value of state s for player p: the utility of a
\* terminal state, and otherwise the best successor value for the player to
\* move (the largest if that is p, the smallest if it is the opponent).
RECURSIVE GameValue(_, _)
GameValue(s, p) ==
    IF is_terminal(s) THEN utility(s, p)
    ELSE LET legal == actions(s)
             values == {GameValue(next(s, legal[i]).value, p) :
                            i \in 1..Len(legal)}
         IN  IF player(s) = p THEN SetMax(values) ELSE SetMin(values)

\* The search of MinimaxAgent with pruning disabled: _minimax without the two
\* break statements, and choose_action on top of it.
RECURSIVE Unpruned_minimax(_, _, _, _)
Unpruned_minimax(self, sess, depth, maximizing_player) ==
    IF Game_is_game_over(sess) \/ DepthReached(self, depth)
    THEN utility(sess.state, self.player_id)
    ELSE LET legal == actions(sess.state)
             values == {Unpruned_minimax(self, CopyAndMove(sess, legal[i]),
                                         depth + 1, ~maximizing_player) :
                            i \in 1..Len(legal)}
         IN  IF maximizing_player THEN SetMax(values) ELSE SetMin(values)

RECURSIVE Unpruned_BestLoop(_, _, _, _, _, _)
Unpruned_BestLoop(self, sess, legal, i, best_action, best_value) ==
    IF i > Len(legal) THEN best_action
    ELSE LET value ==
                 Unpruned_minimax(self, CopyAndMove(sess, legal[i]), 0, FALSE)
         IN  IF value > best_value
             THEN Unpruned_BestLoop(self, sess, legal, i + 1, Some(legal[i]),
                                    value)
             ELSE Unpruned_BestLoop(self, sess, legal, i + 1, best_action,
                                    best_value)

Unpruned_choose_action(self, sess) ==
    LET legal == actions(sess.state)
    IN  IF Len(legal) = 0 THEN None
        ELSE IF Len(legal) = 1 THEN Some(legal[1])
        ELSE Unpruned_BestLoop(self, sess, legal, 1, None, -Infinity)

\* The agent of the player to move, searching to the terminal states.
AgentToMove == MinimaxAgent(current_player, None)

\* Agents of both players, searching to the terminal states or to a depth.
Agents ==
    {MinimaxAgent(p, d) : p \in {1, -1}, d \in {None, Some(1), Some(2)}}

\* What is left of the game in state s: the Halving number, the number of
\* empty cells of the board, the sum of the Nim piles.
Remaining(s) ==
    CASE game = "halving" -> s[1]
      [] game = "nim" -> SumOf(s[1])
      [] OTHER -> Cardinality({rc \in (0..(BoardSide - 1)) \X (0..(BoardSide - 1)) :
                                  s[1][rc[1]][rc[2]] = 0})

(***************************************************************************)
(* Properties.                                                             *)
(***************************************************************************)

\* C1: every play of legal moves ends: the number of moves made never exceeds
\* the total objects of the game as constructed (the starting number, 9, the
\* sum of the piles, N*N), a session that made that many moves is over, and
\* a session that is not over has a legal action to go on with.
C1_PlayEndsWithinBound ==
    /\ moves <= TotalObjects
    /\ moves = TotalObjects => Over
    /\ ~Over => Len(actions(state)) > 0

\* A 5x5 Connect Four game that took all 25 moves.
C1_Witness ==
    /\ game = "connectfour"
    /\ board_size = 5
    /\ moves = 25
    /\ Over

\* C2: the player to move is +1 in the initial state and is negated by every
\* successful move: after an even number of moves it is +1, after an odd
\* number -1.
C2_PlayersAlternate ==
    player(state) = IF moves % 2 = 0 THEN 1 ELSE -1

\* Three moves into a Connect Four game, -1 is to move.
C2_Witness ==
    /\ game = "connectfour"
    /\ moves = 3
    /\ player(state) = -1

\* C3: in every reachable state, actions(state) is empty exactly when
\* is_terminal(state) is true.
C3_ActionsEmptyIffTerminal ==
    (Len(actions(state)) = 0) <=> is_terminal(state)

\* A won Connect Four board that still has empty cells, and no action.
C3_Witness ==
    /\ game = "connectfour"
    /\ is_terminal(state)
    /\ AnyZero(state[1], board_size)
    /\ moves > opening
    /\ actions(state) = <<>>

\* C4: at every reachable terminal state the utilities of the two players are
\* opposite; both are 0 at a draw; they are +1 and -1 in Halving and Nim.
C4_UtilityAntisymmetric ==
    is_terminal(state) =>
        /\ utility(state, 1) = -utility(state, -1)
        /\ Draw(state) => utility(state, 1) = 0 /\ utility(state, -1) = 0
        /\ game \in {"halving", "nim"} =>
               {utility(state, 1), utility(state, -1)} = {1, -1}

\* A drawn Tic-Tac-Toe game.
C4_Witness ==
    /\ game = "tictactoe"
    /\ is_terminal(state)
    /\ Draw(state)

\* C5: in every reachable non-terminal state of Halving and Tic-Tac-Toe, the
\* action the agent of the player to move chooses (alpha-beta pruning,
\* max_depth None) is the action the same search without pruning chooses.
C5_PruningKeepsTheAction ==
    (game \in {"halving", "tictactoe"} /\ moves >= opening /\ ~Over) =>
        MinimaxAgent_choose_action(AgentToMove, Live)
            = Unpruned_choose_action(AgentToMove, Live)

\* A Tic-Tac-Toe state with at least four legal actions where the search
\* chooses an action that is not the first one.
C5_Witness ==
    /\ game = "tictactoe"
    /\ moves >= opening
    /\ Len(actions(state)) >= 4
    /\ MinimaxAgent_choose_action(AgentToMove, Live) # Some(actions(state)[1])

\* C6: with max_depth None and its player to move, the agent chooses the
\* first action, in the order of actions(state), whose successor has the
\* largest exact game value for the agent's player.
C6_FirstBestAction ==
    (moves >= opening /\ ~Over) =>
        LET legal == actions(state)
            value(i) == GameValue(next(state, legal[i]).value, current_player)
            best == SetMax({value(i) : i \in 1..Len(legal)})
            first == CHOOSE i \in 1..Len(legal) :
                         /\ value(i) = best
                         /\ \A j \in 1..(i - 1) : value(j) < best
        IN  MinimaxAgent_choose_action(AgentToMove, Live) = Some(legal[first])

\* A state where two actions have the largest value and the first of them,
\* which is not the first action of all, is chosen.
C6_Witness ==
    /\ moves >= opening
    /\ ~Over
    /\ LET legal == actions(state)
           value(i) == GameValue(next(state, legal[i]).value, current_player)
           best == SetMax({value(i) : i \in 1..Len(legal)})
       IN  /\ Cardinality({i \in 1..Len(legal) : value(i) = best}) >= 2
           /\ value(1) < best
           /\ MinimaxAgent_choose_action(AgentToMove, Live) # Some(legal[1])

\* C7: in every reachable state, Game.move with an action that is not in
\* actions(state) raises and leaves state and current_player as they were.
C7_IllegalMoveRaises ==
    \A action \in ActionInputs :
        ~InSeq(action, actions(state)) =>
            LET after == Game_move(Live, action)
            IN  /\ after.raised
                /\ after.state = state
                /\ after.current_player = current_player

\* A move was attempted on a finished Tic-Tac-Toe game that still has an
\* empty cell, and it raised.
C7_Witness ==
    /\ game = "tictactoe"
    /\ raised
    /\ is_terminal(state)
    /\ AnyZero(state[1], 3)

\* C8: next, called directly, raises for every action that is not in
\* actions(state).
C8_NextRejectsIllegal ==
    \A action \in ActionInputs :
        ~InSeq(action, actions(state)) => next(state, action).raised

\* C9: copy() returns a session object of its own with the state and the
\* current player of the original and no array or list shared with it; a
\* move on the copy leaves the original's fields unchanged, and a move on the
\* original leaves the copy's fields unchanged.
C9_CopyIsIndependent ==
    [][/\ Copy => /\ CopySession' = Live
                  /\ copy_ref' = 2
                  /\ ~aliased'
       /\ MoveCopy => UNCHANGED <<state, current_player>>
       /\ LegalMove => (copy_ref # 0 => CopySession' = CopySession)]_vars

\* The copy was played to the end and the original, played on, is not over.
C9_Witness ==
    /\ copy_ref = 2
    /\ game = "tictactoe"
    /\ is_terminal(copy_state)
    /\ ~Over
    /\ copy_state # state
    /\ \E r \in 0..2, c \in 0..2 : state[1][r][c] # 0 /\ copy_state[1][r][c] = 0

\* C10: on every reachable Tic-Tac-Toe board, _check_winner returns p exactly
\* when p occupies the three cells of a row, a column or a diagonal, and None
\* when neither player does.
C10_TicTacToeWinner ==
    game = "tictactoe" =>
        /\ \A p \in {1, -1} :
               (TicTacToe_check_winner(state[1]) = Some(p))
                   <=> OwnsLine(state[1], 3, 3, p)
        /\ (TicTacToe_check_winner(state[1]) = None)
               <=> (~OwnsLine(state[1], 3, 3, 1) /\ ~OwnsLine(state[1], 3, 3, -1))

\* A board where -1 owns the anti-diagonal.
C10_Witness ==
    /\ game = "tictactoe"
    /\ \A i \in 0..2 : state[1][i][2 - i] = -1
    /\ TicTacToe_check_winner(state[1]) = Some(-1)

\* C11: on every Connect Four board reachable by legal play, 4x4 or 5x5,
\* _check_winner returns p exactly when p occupies four consecutive cells of
\* a row, a column, a diagonal or an anti-diagonal, and None when neither
\* player does; three in a row are never reported.
C11_ConnectFourWinner ==
    game = "connectfour" =>
        /\ \A p \in {1, -1} :
               (ConnectFour_check_winner(state[1]) = Some(p))
                   <=> OwnsLine(state[1], board_size, 4, p)
        /\ (ConnectFour_check_winner(state[1]) = None)
               <=> (/\ ~OwnsLine(state[1], board_size, 4, 1)
                    /\ ~OwnsLine(state[1], board_size, 4, -1))

\* A won 5x5 board whose line only the window at offsets (1, 1) holds, and
\* on which the loser has three in a row.
C11_Witness ==
    /\ game = "connectfour"
    /\ board_size = 5
    /\ ConnectFour_check_winner(state[1]) # None
    /\ \A i \in 0..2 :
           ConnectFour_check_4x4_winner(state[1], i \div 2, i % 2) = None
    /\ OwnsLine(state[1], 5, 3, -ConnectFour_check_winner(state[1])[1])

\* C12: in every Nim state with non-negative piles and a nonzero nim-sum,
\* get_optimal_move returns a move that is in actions(state), and next with
\* that move gives a state whose nim-sum is 0.
C12_OptimalMoveZeroesNimSum ==
    (/\ game = "nim"
     /\ ~Nim_get_nim_sum(state).raised
     /\ Nim_get_nim_sum(state).value # 0) =>
        LET r == Nim_get_optimal_move(state)
        IN  /\ ~r.raised
            /\ r.value # None
            /\ InSeq(r.value[1], Nim_actions(state))
            /\ ~Nim_next(state, r.value[1]).raised
            /\ Nim_get_nim_sum(Nim_next(state, r.value[1]).value) = Ok(0)

\* A state of four piles where the recommended move is not on the first pile
\* and leaves objects on the pile it takes from.
C12_Witness ==
    /\ game = "nim"
    /\ Len(state[1]) = 4
    /\ moves > 0
    /\ LET r == Nim_get_optimal_move(state)
       IN  /\ ~r.raised
           /\ r.value # None
           /\ r.value[1][1] > 0
           /\ r.value[1][2] < state[1][r.value[1][1] + 1]
           /\ r.value[1][2] > 1

\* C13: in every non-terminal Nim state whose nim-sum is 0, every action of
\* actions(state) leads, by next, to a state whose nim-sum is not 0.
C13_ZeroNimSumIsLeft ==
    (/\ game = "nim"
     /\ ~Nim_is_terminal(state)
     /\ Nim_get_nim_sum(state) = Ok(0)) =>
        LET legal == Nim_actions(state)
        IN  \A i \in 1..Len(legal) :
                LET r == Nim_next(state, legal[i])
                IN  /\ ~r.raised
                    /\ ~Nim_get_nim_sum(r.value).raised
                    /\ Nim_get_nim_sum(r.value).value # 0

\* A state of nim-sum 0 with three piles that are not empty, reached by
\* moves.
C13_Witness ==
    /\ game = "nim"
    /\ moves > 0
    /\ Nim_get_nim_sum(state) = Ok(0)
    /\ Cardinality({i \in 1..Len(state[1]) : state[1][i] > 0}) = 3
    /\ Len(Nim_actions(state)) >= 6

\* C14: in HalvingGame(15), when the moves of player +1 are those chosen by
\* MinimaxAgent(player_id=1, max_depth=None) and the moves of player -1 are
\* any legal actions, every play ends, and ends with get_winner() = +1: a
\* match that is over is won by +1, in a match that is not over the player
\* to move has a move (the agent returns an action, -1 has a legal action),
\* every step of the match is one more move, and there are at most 15 moves.
C14_AgentWinsHalving15 ==
    /\ []((game = "halving" /\ starting_number = 15) =>
             /\ moves <= 15
             /\ Over => Game_get_winner(Live) = Some(1)
             /\ (~Over /\ current_player = 1) =>
                    MinimaxAgent_choose_action(MinimaxAgent(1, None), Live)
                        # None
             /\ (~Over /\ current_player = -1) => Len(actions(state)) > 0)
    /\ [][(game = "halving" /\ starting_number = 15) =>
              moves' = moves + 1]_vars

\* Such a match is over, won by +1, after -1 had a choice to make.
C14_Witness ==
    /\ game = "halving"
    /\ starting_number = 15
    /\ moves >= 5
    /\ Over
    /\ Game_get_winner(Live) = Some(1)

\* C15: in Tic-Tac-Toe from the empty board, when the moves of both players
\* are those chosen by MinimaxAgent.choose_action with max_depth=None
\* (player_id +1 and -1), the play ends with a full board and
\* get_winner() = 0: a match that is over has a full board and winner 0, in
\* a match that is not over the agent of the player to move returns an
\* action, every step of the match is one more move, and there are at most
\* 9 moves.
C15_AgentsDrawTicTacToe ==
    /\ [](game = "tictactoe" =>
             /\ moves <= 9
             /\ Over => /\ ~AnyZero(state[1], 3)
                        /\ Game_get_winner(Live) = Some(0)
             /\ ~Over => MinimaxAgent_choose_action(AgentToMove, Live) # None)
    /\ [][game = "tictactoe" => moves' = moves + 1]_vars

\* The match is over after nine moves of the agents, in a draw.
C15_Witness ==
    /\ game = "tictactoe"
    /\ moves = 9
    /\ Over
    /\ Draw(state)
    /\ Game_get_winner(Live) = Some(0)

\* C16: in NimGame([1,3,5,7]), when the moves of player -1 are those
\* returned by get_optimal_move() and the moves of player +1 are any legal
\* actions, get_optimal_move never returns None when -1 is to move, and
\* every play ends with get_winner() = -1: a match that is over is won by
\* -1, in a match that is not over the player to move has a move (the oracle
\* returns a legal action, +1 has a legal action), every step of the match
\* is one more move, and there are at most 16 moves.
C16_OracleWinsNim ==
    /\ []((game = "nim" /\ initial_piles = DefaultPiles) =>
             /\ moves <= 16
             /\ Over => Game_get_winner(Live) = Some(-1)
             /\ (~Over /\ current_player = -1) =>
                    LET r == Nim_get_optimal_move(state)
                    IN  /\ ~r.raised
                        /\ r.value # None
                        /\ InSeq(r.value[1], actions(state))
             /\ (~Over /\ current_player = 1) => Len(actions(state)) > 0)
    /\ [][(game = "nim" /\ initial_piles = DefaultPiles) =>
              moves' = moves + 1]_vars

\* Such a match is over, won by -1, after at least eight moves.
C16_Witness ==
    /\ game = "nim"
    /\ initial_piles = DefaultPiles
    /\ moves >= 8
    /\ Over
    /\ Game_get_winner(Live) = Some(-1)

\* C17: in every non-terminal Connect Four state reachable by legal play,
\* actions(state) is, in ascending order, exactly the columns that still
\* have an empty cell: a full column is left out and every other column is
\* in it.
C17_ActionsAreOpenColumns ==
    (game = "connectfour" /\ ~ConnectFour_is_terminal(state)) =>
        LET legal == ConnectFour_actions(state)
            open == {c \in 0..(board_size - 1) :
                         \E r \in 0..(board_size - 1) : state[1][r][c] = 0}
        IN  /\ {legal[i] : i \in 1..Len(legal)} = open
            /\ \A i \in 1..(Len(legal) - 1) : legal[i] < legal[i + 1]

\* A non-terminal state where column 0 is full, filled by free play, and the
\* actions are all the other columns.
C17_Witness ==
    /\ game = "connectfour"
    /\ moves > opening
    /\ ~ConnectFour_is_terminal(state)
    /\ \A r \in 0..(board_size - 1) : state[1][r][0] # 0
    /\ ConnectFour_actions(state) = [i \in 1..(board_size - 1) |-> i]

\* C18: choose_action(game) returns None exactly when actions(game.state) is
\* empty; otherwise it does not raise and returns a member of
\* actions(game.state); when exactly one action is legal it returns that
\* action without a search.
C18_ChooseActionTotal ==
    moves >= opening =>
        \A self \in Agents :
            LET legal == actions(state)
                chosen == MinimaxAgent_choose_action(self, Live)
            IN  /\ (chosen = None) <=> (Len(legal) = 0)
                /\ ~MinimaxAgent_choose_action_raises(self, Live)
                /\ Len(legal) > 0 => InSeq(chosen[1], legal)
                /\ Len(legal) = 1 =>
                       /\ chosen = Some(legal[1])
                       /\ MinimaxAgent_root_searches(self, Live) = 0

\* A state with one legal action, which loses the game for the player to
\* move, and which the agent of that player returns.
C18_Witness ==
    /\ moves >= opening
    /\ Len(actions(state)) = 1
    /\ GameValue(next(state, actions(state)[1]).value, current_player) = -1
    /\ MinimaxAgent_choose_action(AgentToMove, Live) = Some(actions(state)[1])

\* C19: get_winner() returns None exactly when the game is not over; when
\* the game is over, at most one player of +1, -1 has a positive utility,
\* get_winner() returns that player if there is one and 0 (a draw) if there
\* is none.
C19_GetWinner ==
    LET winner == Game_get_winner(Live)
        positive == {p \in {1, -1} : utility(state, p) > 0}
    IN  /\ (winner = None) <=> ~Over
        /\ Over =>
               /\ Cardinality(positive) <= 1
               /\ \A p \in positive : winner = Some(p)
               /\ positive = {} => winner = Some(0)

\* A 4x4 Connect Four game over with a full board and no winner:
\* get_winner() is 0.
C19_Witness ==
    /\ game = "connectfour"
    /\ board_size = 4
    /\ moves = 16
    /\ Over
    /\ utility(state, 1) = 0
    /\ utility(state, -1) = 0
    /\ Game_get_winner(Live) = Some(0)

\* C20: in Halving and Nim, every move that leads to a terminal state leaves
\* get_winner() equal to the player who made that move, who is the negation
\* of the player to move in the terminal state; get_winner() is never 0.
C20_LastMoverWins ==
    [][(game \in {"halving", "nim"} /\ Over') =>
           /\ Game_get_winner(Live)' = Some(current_player)
           /\ Game_get_winner(Live)' = Some(-player(state'))
           /\ Game_get_winner(Live)' # Some(0)]_vars

\* A Nim game of three piles or more that -1 ended by taking the last
\* objects.
C20_Witness ==
    /\ game = "nim"
    /\ Len(initial_piles) >= 3
    /\ moves >= 4
    /\ Over
    /\ player(state) = 1
    /\ Game_get_winner(Live) = Some(-1)

\* C21: utility(state, player) on a non-terminal state is detectable: it
\* never returns a value of {-1, 0, +1}, which a caller could take for a
\* terminal outcome.
C21_UtilityOnNonTerminalDetectable ==
    ~is_terminal(state) =>
        \A p \in {1, -1} : utility(state, p) \notin {-1, 0, 1}

\* C22: with max_depth set to an integer d, no state more than d plies below
\* the state choose_action was called on is expanded or evaluated.
C22_DepthIsHardLimit ==
    moves >= opening =>
        \A p \in {1, -1}, d \in 1..2 :
            MinimaxAgent_choose_action_deepest(MinimaxAgent(p, Some(d)), Live)
                <= d

\* C23: in every reachable session state, the dictionary get_state_display()
\* returns has is_game_over equal to is_terminal(state), valid_actions equal
\* to actions(state), and winner equal to the player who won, to 0 when the
\* finished game is a draw, and to None while the game is going on.
C23_DisplayAgrees ==
    LET r == get_state_display(Live)
        won == {p \in {1, -1} : utility(state, p) > 0}
    IN  ~r.raised =>
            /\ r.value.is_game_over = is_terminal(state)
            /\ r.value.valid_actions = actions(state)
            /\ ~Over => r.value.winner = None
            /\ Over => \A p \in won : r.value.winner = Some(p)
            /\ (Over /\ won = {}) => r.value.winner = Some(0)

\* C24: a constructor called with a parameter outside its domain raises and
\* makes no game object: ConnectFourGame with a board size other than 4 and
\* 5, HalvingGame with a negative starting number, NimGame with a negative
\* pile.
C24_BadParametersRaise ==
    (\/ board_size \notin {0, 4, 5}
     \/ starting_number < 0
     \/ \E i \in 1..Len(initial_piles) : initial_piles[i] < 0) =>
        (game = "none" /\ raised)

\* C25: in every Nim state with non-negative piles, actions(state) is the
\* list of the pairs (i, k) with piles[i] > 0 and 1 <= k <= piles[i], each
\* once, ordered by i and then by k; next accepts every pair of the list.
C25_NimActions ==
    game = "nim" =>
        LET piles == state[1]
            legal == Nim_actions(state)
            pairs == {ik \in (0..(Len(piles) - 1)) \X (1..MaxPileOf(piles)) :
                          piles[ik[1] + 1] > 0 /\ ik[2] <= piles[ik[1] + 1]}
        IN  /\ {legal[j] : j \in 1..Len(legal)} = pairs
            /\ Len(legal) = Cardinality(pairs)
            /\ \A j \in 1..(Len(legal) - 1) :
                   \/ legal[j][1] < legal[j + 1][1]
                   \/ /\ legal[j][1] = legal[j + 1][1]
                      /\ legal[j][2] < legal[j + 1][2]
            /\ \A j \in 1..Len(legal) : ~Nim_next(state, legal[j]).raised

\* A state of four piles, reached by moves, with an empty pile between two
\* piles that are not empty.
C25_Witness ==
    /\ game = "nim"
    /\ moves > 0
    /\ Len(state[1]) = 4
    /\ state[1][1] > 0
    /\ state[1][2] = 0
    /\ state[1][3] > 1
    /\ Len(Nim_actions(state)) = state[1][1] + state[1][3] + state[1][4]

C27_NextFillsLowestCell ==
    game = "connectfour" =>
        \A col \in 0..(board_size - 1) :
            LET board == state[1]
                empty == {r \in 0..(board_size - 1) : board[r][col] = 0}
                r == ConnectFour_next(state, col)
                changed == {rc \in (0..(board_size - 1)) \X (0..(board_size - 1)) :
                                r.value[1][rc[1]][rc[2]] # board[rc[1]][rc[2]]}
            IN  empty # {} =>
                    /\ ~r.raised
                    /\ changed = {<<SetMax(empty), col>>}
                    /\ r.value[1][SetMax(empty)][col] = state[2]

\* A board, reached by free play, that has a column with two pieces or more
\* and an empty cell, on which next puts the piece of -1.
C27_Witness ==
    /\ game = "connectfour"
    /\ moves > opening
    /\ state[2] = -1
    /\ \E col \in 0..(board_size - 1) :
           /\ state[1][0][col] = 0
           /\ state[1][board_size - 2][col] # 0
           /\ ~ConnectFour_next(state, col).raised
           /\ \E r \in 0..(board_size - 3) :
                  ConnectFour_next(state, col).value[1][r][col] = -1

\* C28: after construction and after any sequence of Game.move calls that
\* succeeded or failed, the field current_player of the session equals
\* player(self.state), in all four games.
C28_CurrentPlayerIsStatePlayer ==
    current_player = player(state)

\* A move failed after an odd number of moves succeeded: -1 is to move.
C28_Witness ==
    /\ raised
    /\ moves % 2 = 1
    /\ moves > opening
    /\ current_player = -1
    /\ player(state) = -1

\* C29: whatever the agents of the two players are, human or minimax, when
\* _auto_play_ai_moves returns, the game is over or the agent of
\* game.current_player is a human: the loop does not stop on the turn of a
\* minimax agent in a game that is not over.
C29_AutoPlayStopsOnlyForHumans ==
    moves >= opening =>
        \A agents \in AgentTypes :
            LET after == auto_play_ai_moves(Live, agents, 0)
            IN  \/ is_terminal(after.state)
                \/ agents[after.current_player] = "human"

\* C30: every legal move makes what is left of the game strictly smaller and
\* never negative: the Halving number, the number of empty cells in
\* Tic-Tac-Toe and Connect Four, the sum of the Nim piles; in Nim every pile
\* stays at 0 or above and the number of piles stays the same.
C30_MovesDecreaseRemaining ==
    [][/\ Remaining(state') < Remaining(state)
       /\ Remaining(state') >= 0
       /\ game = "nim" =>
              /\ Len(state'[1]) = Len(state[1])
              /\ \A i \in 1..Len(state'[1]) : state'[1][i] >= 0]_vars

\* HalvingGame(15) after two 'halve' moves: 3 is left.
C30_Witness ==
    /\ game = "halving"
    /\ starting_number = 15
    /\ moves = 2
    /\ Remaining(state) = 3

\* The live state held through references: its array or list is object 1.
LiveHeap == IF game = "halving" THEN <<>> ELSE <<state[1]>>
LiveRef == IF game = "halving" THEN state ELSE <<1, state[2]>>

\* C31: in every game next(state, action) is pure: the object passed in
\* holds after the call what it held before (whether the call returned or
\* raised), the state returned holds an object of its own, and a second call
\* with the same arguments returns an equal state.
C31_NextIsPure ==
    \A action \in ActionInputs :
        LET first == next_call(LiveHeap, LiveRef, action)
            second == next_call(first.heap, LiveRef, action)
        IN  /\ Deref(first.heap, LiveRef) = state
            /\ ~first.raised =>
                   /\ game # "halving" => first.value[1] # LiveRef[1]
                   /\ ~second.raised
                   /\ Deref(second.heap, LiveRef) = state
                   /\ Deref(second.heap, second.value)
                          = Deref(first.heap, first.value)
                   /\ Deref(second.heap, first.value)
                          = Deref(first.heap, first.value)

\* A Nim state with a pile of two objects: next((piles, p), (0, 2)) returns
\* a list with no object in pile 0 and the list passed in still holds two.
C31_Witness ==
    /\ game = "nim"
    /\ moves > 0
    /\ state[1][1] = 2
    /\ LET first == next_call(LiveHeap, LiveRef, <<0, 2>>)
       IN  /\ ~first.raised
           /\ Deref(first.heap, first.value)[1][1] = 0
           /\ Deref(first.heap, LiveRef)[1][1] = 2

\* C32: in every game and every state, for an agent of either player with or
\* without a depth limit, MinimaxAgent.choose_action(game) returns without
\* raising and leaves game.state and game.current_player as they were before
\* the call; every branch is explored from the state the session is in, so
\* the action chosen is the one of the search in which no move of a branch
\* is seen by another branch.
C32_ChooseActionLeavesSession ==
    moves >= opening =>
        \A self \in Agents :
            LET r == MinimaxAgent_choose_action_on(self, Live)
            IN  /\ ~r.raised
                /\ r.sess.state = state
                /\ r.sess.current_player = current_player
                /\ r.action = MinimaxAgent_choose_action(self, Live)

\* A Connect Four position with several open columns, reached by a move the
\* agent chose: the search ran on copies and the session is as it was.
C32_Witness ==
    /\ game = "connectfour"
    /\ moves > opening
    /\ Len(actions(state)) > 1
    /\ LET r == MinimaxAgent_choose_action_on(AgentToMove, Live)
       IN  /\ r.action # None
           /\ r.sess = Live

\* C33: for every Nim state with non-negative piles, get_optimal_move returns
\* None if and only if the nim-sum (the xor of all piles) is 0, and otherwise
\* returns (i, s_i - (s_i xor nim-sum)) for the smallest pile index i such
\* that (s_i xor nim-sum) < s_i.
C33_OptimalMoveOfNimSum ==
    (/\ game = "nim"
     /\ \A i \in 1..Len(state[1]) : state[1][i] >= 0) =>
        LET piles == state[1]
            nim_sum == XorReduce(piles, 0)
            r == Nim_get_optimal_move(state)
            first(i) ==
                /\ BitXor(piles[i], nim_sum) < piles[i]
                /\ \A j \in 1..(i - 1) : BitXor(piles[j], nim_sum) >= piles[j]
        IN  /\ ~r.raised
            /\ r.value = None <=> nim_sum = 0
            /\ nim_sum # 0 =>
                   \E i \in 1..Len(piles) :
                       /\ first(i)
                       /\ r.value = Some(<<i - 1, piles[i]
                                                  - BitXor(piles[i], nim_sum)>>)

\* C34: in every Nim state that is not terminal and holds at most
\* MaxValueObjects objects, the player to move can force a win under the
\* rules of the game (the exact minimax value of the state for that player,
\* computed with actions, next and utility, is +1) if and only if the nim-sum
\* returned by get_nim_sum is not 0.
C34_NimSumDecidesTheValue ==
    (/\ game = "nim"
     /\ ~Nim_is_terminal(state)
     /\ SumOf(state[1]) <= MaxValueObjects) =>
        /\ ~Nim_get_nim_sum(state).raised
        /\ GameValue(state, player(state)) \in {1, -1}
        /\ GameValue(state, player(state)) = 1
               <=> Nim_get_nim_sum(state).value # 0

\* A lost state with four piles that are not empty, reached by moves.
C34_Witness ==
    /\ game = "nim"
    /\ moves > 0
    /\ Len(state[1]) = 4
    /\ \A i \in 1..4 : state[1][i] > 0
    /\ SumOf(state[1]) <= MaxValueObjects
    /\ Nim_get_nim_sum(state) = Ok(0)
    /\ GameValue(state, player(state)) = -1

\* C35: when choose_action is called in a state where the player to move is
\* the agent's player_id, at every node visited by _minimax the flag
\* maximizing_player is true if and only if the player to move in the state
\* of the node is the agent's player_id.
C35_MaximizingIsAgentsTurn ==
    moves >= opening =>
        \A d \in {None, Some(1), Some(2)} :
            \A r \in MinimaxAgent_choose_action_turns(
                         MinimaxAgent(current_player, d), Live) :
                r.aligned

\* A Tic-Tac-Toe position reached by a move of the agent where the search of
\* the agent to move visits nodes at maximizing levels.
C35_Witness ==
    /\ game = "tictactoe"
    /\ moves > opening
    /\ \E r \in MinimaxAgent_choose_action_turns(AgentToMove, Live) :
           /\ r.aligned
           /\ r.maximizing > 1

\* The result of _check_winner of the session's game on board.
check_winner(board) ==
    IF game = "tictactoe" THEN TicTacToe_check_winner(board)
    ELSE ConnectFour_check_winner(board)

\* C36: in every state of Tic-Tac-Toe and Connect Four reached by legal moves
\* at most one player owns a complete line, a player who owns one is the
\* player who made the last move (the negation of the state's player field),
\* and _check_winner, which looks for +1 before -1, returns the owner of the
\* line, or None when there is none.
C36_OneWinnerTheLastMover ==
    game \in {"tictactoe", "connectfour"} =>
        LET board == state[1]
            owns(p) == OwnsLine(board, BoardSide, LineLength, p)
        IN  /\ ~(owns(1) /\ owns(-1))
            /\ \A p \in {1, -1} :
                   /\ owns(p) => (moves > 0 /\ p = -state[2])
                   /\ owns(p) <=> check_winner(board) = Some(p)

\* A 5x5 Connect Four game won by -1 with its last move, in free play.
C36_Witness ==
    /\ game = "connectfour"
    /\ board_size = 5
    /\ moves > opening
    /\ state[2] = 1
    /\ OwnsLine(state[1], 5, 4, -1)
    /\ check_winner(state[1]) = Some(-1)

\* C37: in every reachable Connect Four state, 4x4 and 5x5, no piece floats:
\* in each column every empty cell is above every occupied cell, so that a
\* column is full if and only if its cell in the top row (row 0) is not
\* empty, which is what actions and next test.
C37_NoPieceFloats ==
    game = "connectfour" =>
        \A col \in 0..(board_size - 1) :
            LET board == state[1]
                rows == 0..(board_size - 1)
            IN  /\ \A r \in rows, q \in rows :
                       (board[r][col] = 0 /\ board[q][col] # 0) => r < q
                /\ (\A r \in rows : board[r][col] # 0) <=> board[0][col] # 0

\* A 4x4 board, reached by free play, with a full column, an empty column
\* and a column that holds pieces below empty cells.
C37_Witness ==
    /\ game = "connectfour"
    /\ board_size = 4
    /\ moves > opening
    /\ \E c \in 0..3 : state[1][0][c] # 0
    /\ \E c \in 0..3 : state[1][3][c] = 0
    /\ \E c \in 0..3 : state[1][0][c] = 0 /\ state[1][2][c] # 0

\* The number of cells of the session's board that hold p.
CountCells(board, p) ==
    Cardinality({rc \in (0..(BoardSide - 1)) \X (0..(BoardSide - 1)) :
                     board[rc[1]][rc[2]] = p})

\* C38: in every reachable state of Tic-Tac-Toe and Connect Four the number
\* of +1 cells minus the number of -1 cells is 0 or 1, and the player field
\* of the state is +1 exactly when the two numbers are equal and -1 exactly
\* when +1 has one cell more.
C38_PieceCountsGiveThePlayer ==
    game \in {"tictactoe", "connectfour"} =>
        LET difference == CountCells(state[1], 1) - CountCells(state[1], -1)
        IN  /\ difference \in {0, 1}
            /\ state[2] = 1 <=> difference = 0
            /\ state[2] = -1 <=> difference = 1

\* A Tic-Tac-Toe board with three cells of +1 and two of -1: -1 is to move.
C38_Witness ==
    /\ game = "tictactoe"
    /\ moves = 5
    /\ CountCells(state[1], 1) = 3
    /\ CountCells(state[1], -1) = 2
    /\ state[2] = -1

====
